---------------------------- MODULE Spec2Model ----------------------------
(***************************************************************************)
(* Rate limiter (lib/rate-limit.ts), tiered cache service                  *)
(* (lib/cache/cache-service.ts) and the payment endpoint                   *)
(* (app/api/process-nmi/route.ts) as state machines.                       *)
(*                                                                         *)
(* Every component has its own specification (SpecRL, SpecIndep, SpecPay,  *)
(* SpecCache); a specification leaves the variables of the other           *)
(* components unchanged.                                                   *)
(***************************************************************************)
EXTENDS Integers, Sequences, FiniteSets, TLC

VARIABLES
  now,                      \* Date.now()
  interval,                 \* RateLimiter.interval
  limit,                    \* RateLimiter.limit
  uniqueTokenPerInterval,   \* RateLimiter.uniqueTokenPerInterval
  cache,                    \* RateLimiter.cache: Map in insertion order
  destroyed,                \* destroy() was called
  lastCheck,                \* history: what the most recent check() did
  lastQuery,                \* history: what the most recent query returned
  win,                      \* history: the window of the watched token's check calls
  allowedCnt,               \* history: per token, allowed checks of its entry
  ecalls,                   \* history: check calls of the watched token's entry
  cacheB,                   \* a second map: RateLimiter.cache of a second run, IP_REQUESTS
  indep,                    \* history: the watched token's results in both runs
  pc,                       \* POST: where each request is suspended
  req,                      \* POST: ip and outcome of limiter.check per request
  resp,                     \* POST: the response returned per request
  gatewayCalls,             \* POST: fetch calls to the gateway per request
  isRedisAvailable,         \* CacheService.isRedisAvailable
  memoryCache,              \* CacheService.memoryCache
  redisStore,               \* the remote store: key -> value with its expiry
  redisUp,                  \* whether a remote command succeeds now
  ctorProbe,                \* the availability check started by the constructor
  nextCleanup,              \* when the memory-cache cleanup timer fires next
  cpc,                      \* cache call of each caller: where it is suspended
  op,                       \* cache call of each caller: its arguments and locals
  last,                     \* the cache call that returned last, and its answer
  calling,                  \* who calls the cache, and how many calls are left
  everUp,                   \* history: a remote command could have succeeded
  lastSet,                  \* history: per key, the last set that returned true
  rt,                       \* history: a set directly followed by a get
  wishlist,                 \* query cache: the data of ['wishlist']
  invalidated,              \* query cache: ['wishlist'] is marked stale
  serverWishlist,           \* the wishlist as /api/wishlist stores it
  mpc,                      \* add-to-wishlist mutations: where each one is
  context                   \* add-to-wishlist mutations: variables and context

rlVars == <<now, interval, limit, uniqueTokenPerInterval, cache, destroyed,
            lastCheck, lastQuery, win, allowedCnt, ecalls>>

indepVars == <<cacheB, indep>>

payVars == <<pc, req, resp, gatewayCalls>>

csVars == <<isRedisAvailable, memoryCache, redisStore, redisUp, ctorProbe,
            nextCleanup, cpc, op, last, calling, everUp, lastSet, rt>>

wlVars == <<wishlist, invalidated, serverWishlist, mpc, context>>

notRL == <<indepVars, payVars, csVars, wlVars>>

vars == <<rlVars, indepVars, payVars, csVars, wlVars>>

---------------------------------------------------------------------------
(* Bounds of the rate limiter model *)

MaxTime == 2

MaxInterval == 2

MaxLimit == 2

MaxTracked == 2

Tokens == {"t1", "t2", "t3"}

(* The token whose windows the history follows; the limiter treats all     *)
(* tokens alike.                                                           *)
Watched == "t1"

NoToken == "none"

NoWin == [start |-> -1, calls |-> 0, evicted |-> FALSE]

(* A window that has ended: more than interval has passed since its start *)
DeadWin == [start |-> -2, calls |-> 0, evicted |-> FALSE]

---------------------------------------------------------------------------
(* Map<string, RateLimitEntry> as a sequence of [token, count, timestamp]  *)
(* in insertion order (a JavaScript Map iterates in insertion order, and   *)
(* set() of an existing key keeps the key's position).                     *)

TokensOf(c) == {c[i].token : i \in 1..Len(c)}

MapHas(c, token) == token \in TokensOf(c)

MapGetFirst(c, token) == c[1]

MapGet(c, token) == c[CHOOSE i \in 1..Len(c) : c[i].token = token]

MapSet(c, token, entry) ==
  LET e == [token |-> token, count |-> entry.count, timestamp |-> entry.timestamp]
  IN IF MapHas(c, token)
     THEN [i \in 1..Len(c) |-> IF c[i].token = token THEN e ELSE c[i]]
     ELSE Append(c, e)

MapDelete(c, token) == SelectSeq(c, LAMBDA e : e.token # token)

(* now - entry.timestamp > this.interval *)
ExpiredLate(entry, t, iv) == t - entry.timestamp > 2 * iv

Expired(entry, t, iv) == t - entry.timestamp > iv

cleanupToken(c, token, t, iv) ==
  IF MapHas(c, token) /\ Expired(MapGet(c, token), t, iv)
  THEN MapSet(c, token, [count |-> 0, timestamp |-> t])
  ELSE c

(* entry.count >= this.limit *)
OverLimitOffByOne(entry, lim) == entry.count > lim

OverLimit(entry, lim) == entry.count >= lim

(* entry.count++ *)
IncrementedStale(entry) == [entry EXCEPT !.count = 1]

Incremented(entry) == [entry EXCEPT !.count = entry.count + 1]

(* [...entries()].sort((a, b) => a.timestamp - b.timestamp)[0][0]: the     *)
(* sort is stable, so among equal timestamps the first inserted is first.  *)
NewestKey(c) ==
  LET i == CHOOSE j \in 1..Len(c) :
             /\ \A k \in 1..Len(c) : c[k].timestamp <= c[j].timestamp
             /\ \A k \in 1..(j-1) : c[k].timestamp < c[j].timestamp
  IN c[i].token

OldestKey(c) ==
  LET i == CHOOSE j \in 1..Len(c) :
             /\ \A k \in 1..Len(c) : c[j].timestamp <= c[k].timestamp
             /\ \A k \in 1..(j-1) : c[k].timestamp > c[j].timestamp
  IN c[i].token

(* this.cache.size > this.uniqueTokenPerInterval *)
OverCapacityNever(c, maxTok) == FALSE

OverCapacity(c, maxTok) == Len(c) > maxTok

(* a rejected check restarts the token's window *)
checkPenalty(c, token, t, iv, lim, maxTok) ==
  LET c1 == cleanupToken(c, token, t, iv)
      entry == IF MapHas(c1, token) THEN MapGet(c1, token)
               ELSE [count |-> 0, timestamp |-> t]
  IN IF OverLimit(entry, lim)
     THEN [cache |-> MapSet(c1, token, [entry EXCEPT !.timestamp = t]),
           allowed |-> FALSE,
           resetTime |-> entry.timestamp + iv - t, full |-> c1]
     ELSE LET c2 == MapSet(c1, token, Incremented(entry))
              c3 == IF OverCapacity(c2, maxTok)
                    THEN MapDelete(c2, OldestKey(c2)) ELSE c2
          IN [cache |-> c3, allowed |-> TRUE, resetTime |-> 0, full |-> c2]

(* RateLimiter.check as a function of the map and the clock: the map       *)
(* afterwards, whether the call was allowed, the resetTime of the error,   *)
(* and the map as it was just before the capacity eviction.                *)
check(c, token, t, iv, lim, maxTok) ==
  LET c1 == cleanupToken(c, token, t, iv)
      entry == IF MapHas(c1, token) THEN MapGet(c1, token)
               ELSE [count |-> 0, timestamp |-> t]
  IN IF OverLimit(entry, lim)
     THEN [cache |-> c1, allowed |-> FALSE,
           resetTime |-> entry.timestamp + iv - t, full |-> c1]
     ELSE LET c2 == MapSet(c1, token, Incremented(entry))
              c3 == IF OverCapacity(c2, maxTok)
                    THEN MapDelete(c2, OldestKey(c2)) ELSE c2
          IN [cache |-> c3, allowed |-> TRUE, resetTime |-> 0, full |-> c2]

(* this.cleanupToken(token, now) left out *)
getRemainingRequestsNoReset(c, token, t, iv, lim) ==
  [cache |-> c,
   value |-> IF ~MapHas(c, token) THEN lim
             ELSE IF lim - MapGet(c, token).count > 0
                  THEN lim - MapGet(c, token).count ELSE 0]

getRemainingRequests(c, token, t, iv, lim) ==
  LET c1 == cleanupToken(c, token, t, iv)
  IN [cache |-> c1,
      value |-> IF ~MapHas(c1, token) THEN lim
                ELSE IF lim - MapGet(c1, token).count > 0
                     THEN lim - MapGet(c1, token).count ELSE 0]

(* Math.max(0, ...) left out *)
getResetTimeUnclamped(c, token, t, iv) ==
  IF ~MapHas(c, token) THEN 0
  ELSE MapGet(c, token).timestamp + iv - t

getResetTime(c, token, t, iv) ==
  IF ~MapHas(c, token) THEN 0
  ELSE IF MapGet(c, token).timestamp + iv - t > 0
       THEN MapGet(c, token).timestamp + iv - t ELSE 0

(* this.cache.clear() in place of the loop *)
cleanupAll(c, t, iv) == <<>>

cleanup(c, t, iv) == SelectSeq(c, LAMBDA e : ~Expired(e, t, iv))

---------------------------------------------------------------------------
(* History of the check calls of one limiter *)

NoCheck ==
  [token |-> NoToken, allowed |-> FALSE, resetTime |-> 0, at |-> 0,
   windowStart |-> 0, k |-> 0, reset |-> FALSE, evicted |-> FALSE,
   countAfter |-> 0, removed |-> {}, over |-> FALSE, evictedOldest |-> TRUE,
   ke |-> 0, expiredEntry |-> FALSE]

(* The query (getRemainingRequests or getResetTime) that returned last *)
NoQuery == [op |-> "none", token |-> NoToken, value |-> 0]

Min2(a, b) == IF a < b THEN a ELSE b

(* The window of token's check calls: it starts at the first check made    *)
(* with no window or more than iv after the previous start, or when an     *)
(* expired entry is reset; it is not ended by a capacity eviction.         *)
WinLive(w, t, iv) == w.start >= 0 /\ t - w.start <= iv

WinAfterCheck(w, t, iv, lim) ==
  IF WinLive(w, t, iv)
  THEN [w EXCEPT !.calls = Min2(w.calls + 1, lim + 1)]
  ELSE [start |-> t, calls |-> 1, evicted |-> FALSE]

CheckRecord(c, w, ec, token, t, iv, lim, maxTok) ==
  LET r == check(c, token, t, iv, lim, maxTok)
      live == WinLive(w, t, iv)
      gone == (TokensOf(c) \cup (IF r.allowed THEN {token} ELSE {}))
                \ TokensOf(r.cache)
  IN [token |-> token, allowed |-> r.allowed, resetTime |-> r.resetTime,
      at |-> t,
      windowStart |-> IF MapHas(r.full, token)
                      THEN MapGet(r.full, token).timestamp ELSE t,
      k |-> IF token = Watched /\ live THEN w.calls ELSE 0,
      reset |-> token = Watched /\ w # NoWin /\ ~live,
      evicted |-> token = Watched /\ live /\ w.evicted,
      countAfter |-> IF MapHas(r.cache, token)
                     THEN MapGet(r.cache, token).count ELSE -1,
      removed |-> gone,
      over |-> r.allowed /\ Len(r.full) > maxTok,
      evictedOldest |-> \A g \in gone : \A i \in 1..Len(r.full) :
                          MapGet(r.full, g).timestamp <= r.full[i].timestamp,
      ke |-> IF token = Watched /\ MapHas(c, token)
                /\ ~Expired(MapGet(c, token), t, iv) THEN ec ELSE 0,
      expiredEntry |-> token = Watched /\ MapHas(c, token)
                       /\ Expired(MapGet(c, token), t, iv)]

---------------------------------------------------------------------------
(* The rate limiter *)

NoIndep ==
  [resA |-> <<TRUE, 0>>, resB |-> <<TRUE, 0>>, evA |-> FALSE, calls |-> 0]

---------------------------------------------------------------------------
(* Data of the cache service *)

MsPerSecond == 1000

CleanupPeriod == 60000

(* Number of clock steps (of one second) in a run *)
MaxCacheTicks == 1

(* Number of runs of the cleanup timer *)
MaxCleanups == 1

Procs == {"p1", "p2"}

(* Number of calls in a run of two concurrent callers *)
MaxCalls == 3

(* One caller that calls without end (left = -1), or two callers *)
OneCaller == [who |-> {"p1"}, left |-> -1]

TwoCallers == [who |-> Procs, left |-> MaxCalls]

(* Keys and namespaces as their ':'-separated parts: "app:cache" is        *)
(* <<"app", "cache">>; <<>> is an absent namespace.                        *)
DefaultNamespace == <<"app", "cache">>

Namespaces == {<<>>, <<"app">>}

RawKeys == {<<"a">>}

Values == {"v1", "v2"}

Ttls == {1}

(* `${ns}:${key}` with ns = namespace || defaultOptions.namespace *)
formatKey(key, namespace) ==
  (IF namespace = <<>> THEN DefaultNamespace ELSE namespace) \o key

FKeys == {formatKey(k, n) : k \in RawKeys, n \in Namespaces}

(* key.startsWith(`${ns}:`), and the remote pattern `${ns}:*` *)
StartsWith(fk, ns) == Len(fk) > Len(ns) /\ SubSeq(fk, 1, Len(ns)) = ns

NoItem == [data |-> "null", timestamp |-> -1, expiry |-> -1]

(* History: a delete of the key has returned true, when n more calls could *)
(* be started, and no set has written the key since (kept where the number *)
(* of calls is bounded)                                                    *)
Deleted(n) == [data |-> "deleted", timestamp |-> -1, expiry |-> -1 - n]

(* JSON.stringify(cacheItem) and JSON.parse(cachedData) *)
Stringify(item) == <<"{", item.data, item.timestamp, item.expiry, "}">>

Parse(text) == [data |-> text[2], timestamp |-> text[3], expiry |-> text[4]]

NoRemote == [value |-> <<>>, expireAt |-> -1]

(* redis GET: the value of a key that has not expired, or null (<<>>) *)
RedisGet(store, fk, t) ==
  IF store[fk] # NoRemote /\ t < store[fk].expireAt THEN store[fk].value ELSE <<>>

(* redis SET key value EX seconds *)
RedisSet(store, fk, text, seconds, t) ==
  [store EXCEPT ![fk] = [value |-> text, expireAt |-> t + seconds * MsPerSecond]]

(* redis DEL keys *)
RedisDel(store, keys) ==
  [k \in FKeys |-> IF k \in keys THEN NoRemote ELSE store[k]]

(* redis KEYS `${ns}:*` *)
RedisKeys(store, ns, t) ==
  {k \in FKeys : StartsWith(k, ns) /\ RedisGet(store, k, t) # <<>>}

(* keys expire on the remote side *)
RedisExpire(store, t) ==
  [k \in FKeys |-> IF RedisGet(store, k, t) = <<>> THEN NoRemote ELSE store[k]]

NoOp ==
  [kind |-> "none", fk |-> <<>>, ns |-> <<>>, fb |-> FALSE, ttl |-> 0,
   item |-> NoItem, redisSuccess |-> TRUE, keys |-> {}, deleted |-> NoItem]

NoResult ==
  [p |-> "none", kind |-> "none", fk |-> <<>>, ns |-> <<>>, fb |-> FALSE,
   value |-> "none", ok |-> FALSE, late |-> FALSE, expect |-> "none",
   rt |-> "none", from |-> "none", memorySize |-> -1, redisSize |-> -1,
   threw |-> FALSE, thrown |-> FALSE, answered |-> FALSE,
   afterDelete |-> FALSE]

NoRT == [st |-> "none", fk |-> <<>>, data |-> "none", fb |-> FALSE, p |-> "none"]

InitCacheVars ==
  /\ isRedisAvailable = FALSE
  /\ memoryCache = [k \in FKeys |-> NoItem]
  /\ redisStore = [k \in FKeys |-> NoRemote]
  /\ redisUp = FALSE
  /\ ctorProbe = "done"
  /\ nextCleanup = CleanupPeriod
  /\ cpc = [p \in Procs |-> "idle"]
  /\ op = [p \in Procs |-> NoOp]
  /\ last = NoResult
  /\ calling = OneCaller
  /\ everUp = FALSE
  /\ lastSet = [k \in FKeys |-> NoItem]
  /\ rt = NoRT

(* The query cache holds no data of ['wishlist'] (getQueryData: undefined) *)
NoWishlist == [defined |-> FALSE, items |-> <<>>]

Mutations == {"m1", "m2"}

Products == {"p1", "p2"}

NoContext == [productId |-> "none", previousWishlist |-> NoWishlist]

InitWishlistVars ==
  /\ wishlist = NoWishlist
  /\ invalidated = FALSE
  /\ serverWishlist = <<>>
  /\ mpc = [m \in Mutations |-> "idle"]
  /\ context = [m \in Mutations |-> NoContext]

Reqs == {"r1"}

NoReq ==
  [ip |-> "", allowed |-> FALSE, resetTime |-> 0, gateway |-> "none",
   response |-> "", responsetext |-> ""]

NoResp == [status |-> 0, retryAfter |-> "", error |-> ""]

InitPayVars ==
  /\ pc = [r \in Reqs |-> "idle"]
  /\ req = [r \in Reqs |-> NoReq]
  /\ resp = [r \in Reqs |-> NoResp]
  /\ gatewayCalls = [r \in Reqs |-> 0]

InitRL ==
  /\ InitPayVars
  /\ InitWishlistVars
  /\ InitCacheVars
  /\ cacheB = <<>>
  /\ indep = NoIndep
  /\ now = 0
  /\ interval \in 1..MaxInterval
  /\ limit \in 1..MaxLimit
  /\ uniqueTokenPerInterval \in 1..MaxTracked
  /\ cache = <<>>
  /\ destroyed = FALSE
  /\ lastCheck = NoCheck
  /\ lastQuery = NoQuery
  /\ win = NoWin
  /\ allowedCnt = [t \in Tokens |-> 0]
  /\ ecalls = 0

Tick ==
  /\ UNCHANGED notRL
  /\ now < MaxTime
  /\ now' = now + 1
  /\ lastCheck' = NoCheck
  /\ lastQuery' = NoQuery
  /\ win' = IF win = NoWin \/ WinLive(win, now + 1, interval)
            THEN win ELSE DeadWin
  /\ UNCHANGED <<interval, limit, uniqueTokenPerInterval, cache, destroyed,
                 allowedCnt, ecalls>>

Check(token) ==
  LET r == check(cache, token, now, interval, limit, uniqueTokenPerInterval)
      rec == CheckRecord(cache, win, ecalls, token, now, interval, limit,
                         uniqueTokenPerInterval)
      fresh == ~MapHas(cache, token) \/ Expired(MapGet(cache, token), now, interval)
  IN /\ ~destroyed
     /\ UNCHANGED notRL
     /\ cache' = r.cache
     /\ lastCheck' = rec
     /\ lastQuery' = NoQuery
     /\ win' = IF token = Watched
               THEN WinAfterCheck(win, now, interval, limit)
               ELSE IF Watched \in rec.removed /\ WinLive(win, now, interval)
                    THEN [win EXCEPT !.evicted = TRUE]
                    ELSE win
     /\ allowedCnt' = [t \in Tokens |->
                         IF t \in rec.removed THEN 0
                         ELSE IF t # token THEN allowedCnt[t]
                         ELSE (IF fresh THEN 0 ELSE allowedCnt[t])
                              + (IF r.allowed THEN 1 ELSE 0)]
     /\ ecalls' = IF Watched \in rec.removed THEN 0
                  ELSE IF token = Watched THEN Min2(rec.ke + 1, limit + 1)
                  ELSE ecalls
     /\ UNCHANGED <<now, interval, limit, uniqueTokenPerInterval, destroyed>>

GetRemainingRequests(token) ==
  LET r == getRemainingRequests(cache, token, now, interval, limit)
      wasReset == MapHas(cache, token) /\ Expired(MapGet(cache, token), now, interval)
  IN /\ ~destroyed
     /\ UNCHANGED notRL
     /\ cache' = r.cache
     /\ win' = IF wasReset /\ token = Watched
               THEN [start |-> now, calls |-> 0, evicted |-> FALSE]
               ELSE win
     /\ allowedCnt' = IF wasReset THEN [allowedCnt EXCEPT ![token] = 0] ELSE allowedCnt
     /\ ecalls' = IF wasReset /\ token = Watched THEN 0 ELSE ecalls
     /\ lastCheck' = NoCheck
     /\ lastQuery' = NoQuery
     /\ UNCHANGED <<now, interval, limit, uniqueTokenPerInterval, destroyed>>

GetResetTime(token) ==
  /\ ~destroyed
  /\ UNCHANGED notRL
  /\ lastCheck' = NoCheck
  /\ lastQuery' = NoQuery
  /\ UNCHANGED <<now, interval, limit, uniqueTokenPerInterval, cache,
                 destroyed, win, allowedCnt, ecalls>>

Cleanup ==
  /\ ~destroyed
  /\ UNCHANGED notRL
  /\ cache' = cleanup(cache, now, interval)
  /\ lastCheck' = NoCheck
  /\ lastQuery' = NoQuery
  /\ allowedCnt' = [t \in Tokens |->
                     IF MapHas(cleanup(cache, now, interval), t)
                     THEN allowedCnt[t] ELSE 0]
  /\ ecalls' = IF MapHas(cleanup(cache, now, interval), Watched) THEN ecalls ELSE 0
  /\ UNCHANGED <<now, interval, limit, uniqueTokenPerInterval, destroyed, win>>

(* destroy(): the timer is cleared and the map emptied; the limiter is not *)
(* used afterwards.                                                        *)
Destroy ==
  /\ ~destroyed
  /\ UNCHANGED notRL
  /\ destroyed' = TRUE
  /\ cache' = <<>>
  /\ lastCheck' = NoCheck
  /\ lastQuery' = NoQuery
  /\ allowedCnt' = [t \in Tokens |-> 0]
  /\ ecalls' = 0
  /\ UNCHANGED <<now, interval, limit, uniqueTokenPerInterval, win>>

NextRL ==
  \/ Tick
  \/ \E token \in Tokens : Check(token)
  \/ \E token \in Tokens : GetRemainingRequests(token)
  \/ \E token \in Tokens : GetResetTime(token)
  \/ Cleanup
  \/ Destroy

SpecRL == InitRL /\ [][NextRL]_vars

---------------------------------------------------------------------------
(* Claims about the rate limiter, checked under SpecRL *)

Checked == lastCheck.token # NoToken

WindowRule(k) ==
  /\ (k < limit => lastCheck.allowed)
  /\ (k = limit => ~lastCheck.allowed)

(* C1 as stated: counting the check(T) calls of one window of length W     *)
(* (k calls were made before this one), the first L are allowed and the    *)
(* (L+1)th is rejected; the first check(T) made more than W after the      *)
(* window's start is allowed and leaves T's count at exactly 1.            *)
C1_AsStated ==
  lastCheck.token = Watched =>
    /\ WindowRule(lastCheck.k)
    /\ (lastCheck.reset => lastCheck.allowed /\ lastCheck.countAfter = 1)

(* C1 amended: the same, counting from the creation or expiry reset of T's *)
(* entry and only while that entry has not been evicted for capacity (an   *)
(* evicted token starts again with a fresh entry).                         *)
C1_WindowPerEntry ==
  lastCheck.token = Watched =>
    /\ WindowRule(lastCheck.ke)
    /\ (lastCheck.expiredEntry => lastCheck.allowed /\ lastCheck.countAfter = 1)

C1_Witness ==
  /\ lastCheck.token = Watched
  /\ limit = 2
  /\ lastCheck.ke = limit
  /\ ~lastCheck.allowed

C1_WitnessReset ==
  /\ lastCheck.token = Watched
  /\ lastCheck.expiredEntry
  /\ lastCheck.countAfter = 1

(* C2: check runs to completion without suspending, so under every order   *)
(* of the check calls of concurrent requests no increment is lost: the     *)
(* count of a tracked token equals the number of its check calls allowed   *)
(* since its current window began.                                         *)
C2_NoLostIncrement ==
  \A t \in Tokens : MapHas(cache, t) => MapGet(cache, t).count = allowedCnt[t]

C2_Witness ==
  /\ MapHas(cache, "t1") /\ MapGet(cache, "t1").count = 2
  /\ MapHas(cache, "t2") /\ MapGet(cache, "t2").count = 1
  /\ lastCheck.token = "t1"

(* C3: a rejected check carries resetTime = windowStart + interval - now   *)
(* of the token's current window, and 0 <= resetTime <= interval.          *)
C3_ResetTimeRange ==
  Checked /\ ~lastCheck.allowed =>
    /\ lastCheck.resetTime = lastCheck.windowStart + interval - lastCheck.at
    /\ 0 <= lastCheck.resetTime
    /\ lastCheck.resetTime <= interval

C3_Witness ==
  /\ Checked /\ ~lastCheck.allowed
  /\ interval = 2
  /\ lastCheck.resetTime = 0

(* C5: the number of tracked tokens never exceeds uniqueTokenPerInterval   *)
(* once a check call has returned.                                         *)
C5_BoundedTokens == Len(cache) <= uniqueTokenPerInterval

C5_Witness ==
  /\ lastCheck.over
  /\ uniqueTokenPerInterval = 2
  /\ Len(cache) = 2

(* C6: a check that pushes the number of tracked tokens above the maximum  *)
(* removes exactly one entry, one of minimal windowStart; any other check  *)
(* removes nothing.                                                        *)
C6_EvictOldestOnly ==
  Checked =>
    /\ (lastCheck.over =>
          Cardinality(lastCheck.removed) = 1 /\ lastCheck.evictedOldest)
    /\ (~lastCheck.over => lastCheck.removed = {})

C6_Witness ==
  /\ lastCheck.over
  /\ uniqueTokenPerInterval = 2
  /\ Cardinality(lastCheck.removed) = 1
  /\ \E i \in 1..Len(cache) : cache[i].timestamp < now

---------------------------------------------------------------------------
(* Two runs of one limiter configuration, A (cache) and B (cacheB), on the *)
(* same clock.  Both runs make the same calls for the watched token at the *)
(* same times and run the cleanup timer at the same times.  Run A also     *)
(* makes calls for the other tokens, run B makes none: two runs that each  *)
(* agree with B on the watched token's results agree with each other.      *)

MaxWatchedCalls == 3

OtherTokens == Tokens \ {Watched}

Dropped(c, token, r) ==
  (TokensOf(c) \cup (IF r.allowed THEN {token} ELSE {})) \ TokensOf(r.cache)

InitIndep == InitRL

IndepFrame ==
  UNCHANGED <<interval, limit, uniqueTokenPerInterval, destroyed, lastCheck,
              lastQuery, win, allowedCnt, ecalls, payVars, csVars, wlVars>>

TickBoth ==
  /\ now < MaxTime
  /\ now' = now + 1
  /\ UNCHANGED <<cache, cacheB, indep>>
  /\ IndepFrame

CheckBoth ==
  LET a == check(cache, Watched, now, interval, limit, uniqueTokenPerInterval)
      b == check(cacheB, Watched, now, interval, limit, uniqueTokenPerInterval)
  IN /\ indep.calls < MaxWatchedCalls
     /\ cache' = a.cache
     /\ cacheB' = b.cache
     /\ indep' = [resA |-> <<a.allowed, a.resetTime>>,
                  resB |-> <<b.allowed, b.resetTime>>,
                  evA |-> indep.evA \/ Watched \in Dropped(cache, Watched, a),
                  calls |-> indep.calls + 1]
     /\ UNCHANGED now
     /\ IndepFrame

RemainingBoth ==
  /\ cache' = getRemainingRequests(cache, Watched, now, interval, limit).cache
  /\ cacheB' = getRemainingRequests(cacheB, Watched, now, interval, limit).cache
  /\ UNCHANGED <<now, indep>>
  /\ IndepFrame

CleanupBoth ==
  /\ cache' = cleanup(cache, now, interval)
  /\ cacheB' = cleanup(cacheB, now, interval)
  /\ UNCHANGED <<now, indep>>
  /\ IndepFrame

CheckOtherA(token) ==
  LET a == check(cache, token, now, interval, limit, uniqueTokenPerInterval)
  IN /\ cache' = a.cache
     /\ indep' = [indep EXCEPT !.evA = @ \/ Watched \in Dropped(cache, token, a)]
     /\ UNCHANGED <<now, cacheB>>
     /\ IndepFrame

RemainingOtherA(token) ==
  /\ cache' = getRemainingRequests(cache, token, now, interval, limit).cache
  /\ UNCHANGED <<now, cacheB, indep>>
  /\ IndepFrame

NextIndep ==
  \/ TickBoth
  \/ CheckBoth
  \/ RemainingBoth
  \/ CleanupBoth
  \/ \E token \in OtherTokens : CheckOtherA(token)
  \/ \E token \in OtherTokens : RemainingOtherA(token)

SpecIndep == InitIndep /\ [][NextIndep]_vars

(* C4 as stated: whatever calls are made for the other tokens, the watched *)
(* token's check calls give the same results (allowed or rejected, and the *)
(* resetTime of a rejection) in both runs.                                 *)
C4_AsStated == indep.resA = indep.resB

(* C4 amended: the results agree as long as the watched token's entry has  *)
(* not been evicted for capacity by the calls of the other tokens.         *)
C4_IndependentUnlessEvicted == ~indep.evA => indep.resA = indep.resB

C4_Witness ==
  /\ ~indep.evA
  /\ indep.calls = 3
  /\ indep.resA[1] = FALSE
  /\ Len(cache) = 2
  /\ Len(cacheB) = 1

---------------------------------------------------------------------------
(* The payment endpoint: POST of app/api/process-nmi/route.ts.  A request  *)
(* runs from one await to the next in one step; several requests are in    *)
(* flight at a time and share the limiter.                                 *)

PayInterval == 60000

PayLimit == 10

DefaultMaxTokens == 500

(* Granularity of the clock of the endpoint model, in milliseconds, and    *)
(* the number of clock steps                                               *)
PayTickMs == 30000

MaxPayTicks == 3

(* Header values: cf-connecting-ip ("" for an absent header) and           *)
(* x-forwarded-for as its comma-separated parts, trimmed (<<>> for an      *)
(* absent header).                                                         *)
CfHeaders == {"", "1.2.3.4"}

XffHeaders == {<<>>, <<"">>, <<"1.2.3.4", "10.0.0.1">>}

(* cf-connecting-ip || x-forwarded-for.split(',')[0].trim() || 'unknown' *)
ClientIp(cf, xff) ==
  IF cf # "" THEN cf
  ELSE IF xff # <<>> /\ xff[1] # "" THEN xff[1]
  ELSE "unknown"

(* What the body of a request makes of the validation chain: the first     *)
(* test that fails, an exception thrown on the way, or "ok".               *)
BodyKinds ==
  {"jsonThrows", "missingFields", "invalidToken", "incompleteBilling",
   "badEmail", "badPhone", "formatThrows", "noKey", "badTotal", "ok"}

Response(status, error) == [status |-> status, retryAfter |-> "", error |-> error]

(* The 429 response of the rate-limit catch block *)
RateLimited ==
  [status |-> 429, retryAfter |-> "60",
   error |-> "Too many payment attempts. Please wait and try again."]

(* The 500 response of the outer catch block *)
Unexpected ==
  Response(500, "An unexpected error occurred processing your payment")

ValidationResponse(kind) ==
  CASE kind = "jsonThrows" -> Unexpected
    [] kind = "missingFields" -> Response(400, "Missing required fields")
    [] kind = "invalidToken" -> Response(400, "Invalid payment token")
    [] kind = "incompleteBilling" -> Response(400, "Incomplete billing information")
    [] kind = "badEmail" -> Response(400, "Invalid email format")
    [] kind = "badPhone" -> Response(400, "Invalid phone format")
    [] kind = "formatThrows" -> Unexpected
    [] kind = "noKey" -> Response(500, "Payment configuration error")
    [] kind = "badTotal" -> Response(400, "Invalid order total")

InitPay ==
  /\ now = 0
  /\ interval = PayInterval
  /\ limit = PayLimit
  /\ uniqueTokenPerInterval = DefaultMaxTokens
  /\ cache = <<>>
  /\ destroyed = FALSE
  /\ lastCheck = NoCheck
  /\ lastQuery = NoQuery
  /\ win = NoWin
  /\ allowedCnt = [t \in Tokens |-> 0]
  /\ ecalls = 0
  /\ cacheB = <<>>
  /\ indep = NoIndep
  /\ InitPayVars
  /\ InitWishlistVars
  /\ InitCacheVars

PayFrame ==
  UNCHANGED <<interval, limit, uniqueTokenPerInterval, destroyed, lastCheck,
              lastQuery, win, allowedCnt, ecalls, indepVars, csVars, wlVars>>

PayTick ==
  /\ now < MaxPayTicks * PayTickMs
  /\ now' = now + PayTickMs
  /\ UNCHANGED <<cache, payVars>>
  /\ PayFrame

PayCleanup ==
  /\ cache' = cleanup(cache, now, interval)
  /\ UNCHANGED <<now, payVars>>
  /\ PayFrame

(* Lines 104-118: the ip is read and limiter.check(ip) runs; the request   *)
(* is suspended at the await of its result.                                *)
PostStart(r, cf, xff) ==
  LET ip == ClientIp(cf, xff)
      c == check(cache, ip, now, interval, limit, uniqueTokenPerInterval)
  IN /\ pc[r] = "idle"
     /\ cache' = c.cache
     /\ req' = [req EXCEPT ![r] = [NoReq EXCEPT !.ip = ip,
                                                !.allowed = c.allowed,
                                                !.resetTime = c.resetTime]]
     /\ pc' = [pc EXCEPT ![r] = "checking"]
     /\ resp' = [resp EXCEPT ![r] = NoResp]
     /\ gatewayCalls' = [gatewayCalls EXCEPT ![r] = 0]
     /\ UNCHANGED now
     /\ PayFrame

(* Lines 119-147: the catch block of the rate limit, the content type      *)
(* test, and the await of request.json()                                   *)
PostAfterCheck(r, contentTypeOk) ==
  /\ pc[r] = "checking"
  /\ IF ~req[r].allowed
     THEN /\ resp' = [resp EXCEPT ![r] = RateLimited]
          /\ pc' = [pc EXCEPT ![r] = "done"]
     ELSE IF ~contentTypeOk
     THEN /\ resp' = [resp EXCEPT ![r] = Response(400, "Invalid content type")]
          /\ pc' = [pc EXCEPT ![r] = "done"]
     ELSE /\ pc' = [pc EXCEPT ![r] = "parsing"]
          /\ UNCHANGED resp
  /\ UNCHANGED <<now, cache, req, gatewayCalls>>
  /\ PayFrame

(* the fetch moved in front of the validation chain *)
PostAfterParseFetchFirst(r, kind) ==
  /\ pc[r] = "parsing"
  /\ gatewayCalls' = [gatewayCalls EXCEPT ![r] = @ + 1]
  /\ IF kind # "ok"
     THEN /\ resp' = [resp EXCEPT ![r] = ValidationResponse(kind)]
          /\ pc' = [pc EXCEPT ![r] = "done"]
     ELSE /\ pc' = [pc EXCEPT ![r] = "fetching"]
          /\ UNCHANGED resp
  /\ UNCHANGED <<now, cache, req>>
  /\ PayFrame

(* Lines 147-282: validation of the body, then the fetch to the gateway *)
PostAfterParse(r, kind) ==
  /\ pc[r] = "parsing"
  /\ IF kind # "ok"
     THEN /\ resp' = [resp EXCEPT ![r] = ValidationResponse(kind)]
          /\ pc' = [pc EXCEPT ![r] = "done"]
          /\ UNCHANGED gatewayCalls
     ELSE /\ gatewayCalls' = [gatewayCalls EXCEPT ![r] = @ + 1]
          /\ pc' = [pc EXCEPT ![r] = "fetching"]
          /\ UNCHANGED resp
  /\ UNCHANGED <<now, cache, req>>
  /\ PayFrame

(* Lines 273-294: the fetch rejects (gateway unreachable: outer catch),    *)
(* or resolves with a status; a 200 goes on to await response.text()       *)
PostAfterFetch(r, outcome) ==
  /\ pc[r] = "fetching"
  /\ CASE outcome = "unreachable" ->
            /\ resp' = [resp EXCEPT ![r] = Unexpected]
            /\ pc' = [pc EXCEPT ![r] = "done"]
       [] outcome = "httpError" ->
            /\ resp' = [resp EXCEPT ![r] = Response(502, "Payment gateway error")]
            /\ pc' = [pc EXCEPT ![r] = "done"]
       [] outcome = "http200" ->
            /\ pc' = [pc EXCEPT ![r] = "reading"]
            /\ UNCHANGED resp
  /\ req' = [req EXCEPT ![r].gateway = outcome]
  /\ UNCHANGED <<now, cache, gatewayCalls>>
  /\ PayFrame

(* Lines 294-349: the gateway's answer: response = 1 is a success, any     *)
(* other a decline with responsetext || 'Payment declined'                 *)
PostAfterText(r, response, responsetext) ==
  /\ pc[r] = "reading"
  /\ IF response = "throws"
     THEN resp' = [resp EXCEPT ![r] = Unexpected]
     ELSE IF response # "1"
     THEN resp' = [resp EXCEPT ![r] =
                    Response(400, IF responsetext # "" THEN responsetext
                                  ELSE "Payment declined")]
     ELSE resp' = [resp EXCEPT ![r] = Response(200, "")]
  /\ pc' = [pc EXCEPT ![r] = "done"]
  /\ req' = [req EXCEPT ![r].response = response,
                        ![r].responsetext = responsetext]
  /\ UNCHANGED <<now, cache, gatewayCalls>>
  /\ PayFrame

(* The response is sent; the slot takes the next request *)
PostReturn(r) ==
  /\ pc[r] = "done"
  /\ pc' = [pc EXCEPT ![r] = "idle"]
  /\ req' = [req EXCEPT ![r] = NoReq]
  /\ resp' = [resp EXCEPT ![r] = NoResp]
  /\ gatewayCalls' = [gatewayCalls EXCEPT ![r] = 0]
  /\ UNCHANGED <<now, cache>>
  /\ PayFrame

NextPay ==
  \/ PayTick
  \/ PayCleanup
  \/ \E r \in Reqs, cf \in CfHeaders, xff \in XffHeaders : PostStart(r, cf, xff)
  \/ \E r \in Reqs, ok \in BOOLEAN : PostAfterCheck(r, ok)
  \/ \E r \in Reqs, kind \in BodyKinds : PostAfterParse(r, kind)
  \/ \E r \in Reqs, o \in {"unreachable", "httpError", "http200"} :
        PostAfterFetch(r, o)
  \/ \E r \in Reqs, g \in {"throws", "1", "2"}, t \in {"", "DECLINE"} :
        PostAfterText(r, g, t)
  \/ \E r \in Reqs : PostReturn(r)

SpecPay == InitPay /\ [][NextPay]_vars

(* Retry-After in whole seconds for a wait of ms milliseconds *)
SecondsUp(ms) == (ms + 999) \div 1000

SecondsText(n) ==
  CASE n = 0 -> "0" [] n = 30 -> "30" [] n = 60 -> "60" [] OTHER -> "other"

(* C7: a request that the limiter rejects is answered with status 429 and  *)
(* a Retry-After that is the error's resetTime (the time left until the    *)
(* client's window resets) in seconds.                                     *)
C7_RetryAfterFromResetTime ==
  \A r \in Reqs :
    (pc[r] = "done" /\ ~req[r].allowed) =>
      /\ resp[r].status = 429
      /\ resp[r].retryAfter = SecondsText(SecondsUp(req[r].resetTime))

C7_RateLimited429 ==
  \E r \in Reqs :
    /\ pc[r] = "done" /\ ~req[r].allowed
    /\ resp[r].status = 429
    /\ req[r].resetTime = 30000

---------------------------------------------------------------------------
(* The cache service: CacheService of lib/cache/cache-service.ts.  A call  *)
(* runs from one await to the next in one step; the awaits are the remote  *)
(* commands and the ping of updateRedisAvailability.  A remote command     *)
(* takes effect, and its answer arrives, in the step that resumes the      *)
(* call; it throws when the remote store is down at that moment.           *)

InitCacheOf(callers) ==
  /\ now = 0
  /\ interval = 1
  /\ limit = 1
  /\ uniqueTokenPerInterval = 1
  /\ cache = <<>>
  /\ destroyed = FALSE
  /\ lastCheck = NoCheck
  /\ lastQuery = NoQuery
  /\ win = NoWin
  /\ allowedCnt = [t \in Tokens |-> 0]
  /\ ecalls = 0
  /\ cacheB = <<>>
  /\ indep = NoIndep
  /\ InitPayVars
  /\ InitWishlistVars
  (* the constructor: flag false, the first availability check in flight *)
  /\ isRedisAvailable = FALSE
  /\ memoryCache = [k \in FKeys |-> NoItem]
  /\ redisStore = [k \in FKeys |-> NoRemote]
  /\ redisUp \in BOOLEAN
  /\ ctorProbe = "pending"
  /\ nextCleanup = CleanupPeriod
  /\ cpc = [p \in Procs |-> "idle"]
  /\ op = [p \in Procs |-> NoOp]
  /\ last = NoResult
  /\ calling = callers
  /\ everUp = FALSE
  /\ lastSet = [k \in FKeys |-> NoItem]
  /\ rt = NoRT

InitCache == InitCacheOf(OneCaller)

InitCache2 == InitCacheOf(TwoCallers)

CacheFrame ==
  UNCHANGED <<interval, limit, uniqueTokenPerInterval, cache, destroyed,
              lastCheck, lastQuery, win, allowedCnt, ecalls, indepVars,
              payVars, wlVars>>

(* A step that starts no call *)
ResumeFrame == UNCHANGED calling /\ CacheFrame

OthersIdle(p) == \A q \in Procs \ {p} : cpc[q] = "idle"

(* A caller starts a call *)
Begin(p) ==
  /\ cpc[p] = "idle"
  /\ p \in calling.who
  /\ calling.left # 0
  /\ calling' = [calling EXCEPT !.left = IF @ > 0 THEN @ - 1 ELSE @]

(* The call waits for a remote command or for the ping *)
Suspend(p, o, at) ==
  /\ cpc' = [cpc EXCEPT ![p] = at]
  /\ op' = [op EXCEPT ![p] = o]
  /\ last' = NoResult

(* The call returns res to its caller *)
Return(p, o, res) ==
  /\ cpc' = [cpc EXCEPT ![p] = "idle"]
  /\ op' = [op EXCEPT ![p] = NoOp]
  /\ last' = [res EXCEPT !.p = p, !.kind = o.kind, !.fk = o.fk, !.ns = o.ns,
                         !.fb = o.fb]

(* History: a remote command or a ping has been answered by the store *)
Answered == everUp' = (everUp \/ redisUp)

(* The catch block of a remote branch: the exception of the remote command *)
(* ends there (threw) and is not passed on to the caller (thrown)          *)
ThrewUncaught(res) == [res EXCEPT !.threw = TRUE, !.thrown = TRUE]

Threw(res) == [res EXCEPT !.threw = TRUE]

(* History: the call returns after the remote store answered its command *)
Answers(res) == [res EXCEPT !.answered = TRUE]

(* this.isRedisAvailable = await isRedisAvailable(): ping, true or false *)
updateRedisAvailability == redisUp

(* The constructor's un-awaited updateRedisAvailability() completes *)
CtorProbe ==
  /\ ctorProbe = "pending"
  /\ last' = NoResult
  /\ ctorProbe' = "done"
  /\ isRedisAvailable' = updateRedisAvailability
  /\ Answered
  /\ UNCHANGED <<now, memoryCache, redisStore, redisUp, nextCleanup, cpc, op, lastSet, rt>>
  /\ ResumeFrame

(* Lines 84-93 of get: the memory cache as fallback *)
MemoryGet(o, t) ==
  IF o.fb /\ memoryCache[o.fk] # NoItem /\ t < memoryCache[o.fk].expiry
  THEN memoryCache[o.fk] ELSE NoItem

(* What a get that returns item reports: the data, the store it came      *)
(* from, whether the item's own expiry had passed, what the last           *)
(* successful set of the key lets expect, and the value of the set this    *)
(* get directly follows                                                    *)
GetResult(o, item, from, follows) ==
  [NoResult EXCEPT
     !.value = item.data,
     !.from = IF item = NoItem THEN "none" ELSE from,
     !.late = item # NoItem /\ now >= item.expiry,
     !.expect = IF lastSet[o.fk] # NoItem /\ now < lastSet[o.fk].expiry
                THEN lastSet[o.fk].data ELSE "none",
     !.afterDelete = o.deleted # NoItem /\ lastSet[o.fk] = o.deleted,
     !.rt = follows]

Following(p) == IF rt.st = "get" /\ rt.p = p THEN rt.data ELSE "none"

FollowsSet(p, o) == rt.st = "set" /\ rt.fk = o.fk /\ rt.fb = o.fb /\ OthersIdle(p)

RtAfterGet(p) == IF rt.st = "get" /\ rt.p = p THEN NoRT ELSE rt

GetStart(p, key, ns, fb) ==
  LET o == [NoOp EXCEPT !.kind = "get", !.fk = formatKey(key, ns), !.ns = ns,
                        !.fb = fb,
                        !.deleted =
                           IF lastSet[formatKey(key, ns)].data = "deleted"
                           THEN lastSet[formatKey(key, ns)] ELSE NoItem]
  IN /\ Begin(p)
     /\ IF isRedisAvailable
        THEN /\ Suspend(p, o, "remote")
             /\ rt' = IF FollowsSet(p, o)
                      THEN [rt EXCEPT !.st = "get", !.p = p] ELSE NoRT
        ELSE /\ Return(p, o, GetResult(o, MemoryGet(o, now), "memory",
                                    IF FollowsSet(p, o) THEN rt.data ELSE "none"))
             /\ rt' = NoRT
     /\ UNCHANGED <<now, isRedisAvailable, memoryCache, redisStore, redisUp,
                    ctorProbe, nextCleanup, everUp, lastSet>>
     /\ CacheFrame

(* Lines 70-81 of get: the answer of redis.get, or its exception *)
GetRemote(p) ==
  LET o == op[p]
      cachedData == RedisGet(redisStore, o.fk, now)
  IN /\ cpc[p] = "remote" /\ o.kind = "get"
     /\ IF ~redisUp THEN Suspend(p, o, "probe") /\ UNCHANGED rt
        ELSE IF cachedData # <<>>
        THEN Return(p, o, Answers(GetResult(o, Parse(cachedData), "remote",
                                            Following(p))))
             /\ rt' = RtAfterGet(p)
        ELSE Return(p, o, Answers(GetResult(o, MemoryGet(o, now), "memory",
                                            Following(p))))
             /\ rt' = RtAfterGet(p)
     /\ Answered
     /\ UNCHANGED <<now, isRedisAvailable, memoryCache, redisStore, redisUp,
                    ctorProbe, nextCleanup, lastSet>>
     /\ ResumeFrame

GetProbe(p) ==
  LET o == op[p]
  IN /\ cpc[p] = "probe" /\ o.kind = "get"
     /\ isRedisAvailable' = updateRedisAvailability
     /\ Answered
     /\ Return(p, o, Threw(GetResult(o, MemoryGet(o, now), "memory",
                                      Following(p))))
     /\ rt' = RtAfterGet(p)
     /\ UNCHANGED <<now, memoryCache, redisStore, redisUp, ctorProbe,
                    nextCleanup, lastSet>>
     /\ ResumeFrame

(* What a call that returns a boolean reports *)
Ok(b) == [NoResult EXCEPT !.ok = b]

(* History: the last set of each key that returned true *)
LastSetAfter(o, ok) == IF ok THEN [lastSet EXCEPT ![o.fk] = o.item] ELSE lastSet

RtAfterSet(p, ok) ==
  IF ok /\ rt.st = "setting" /\ rt.p = p
  THEN [rt EXCEPT !.st = "set"] ELSE NoRT

(* Lines 127-133 of set: the memory cache as fallback *)
MemorySetNever(o) == memoryCache

MemorySetAlways(o) == [memoryCache EXCEPT ![o.fk] = o.item]

MemorySet(o) ==
  IF o.fb THEN [memoryCache EXCEPT ![o.fk] = o.item] ELSE memoryCache

SetStart(p, key, data, ttl, ns, fb) ==
  LET o == [NoOp EXCEPT !.kind = "set", !.fk = formatKey(key, ns), !.ns = ns,
                        !.fb = fb, !.ttl = ttl,
                        !.item = [data |-> data, timestamp |-> now,
                                  expiry |-> now + ttl * MsPerSecond]]
      tracked == [st |-> "setting", fk |-> o.fk, data |-> data, fb |-> fb, p |-> p]
  IN /\ Begin(p)
     /\ IF isRedisAvailable
        THEN /\ Suspend(p, o, "remote")
             /\ rt' = IF OthersIdle(p) THEN tracked ELSE NoRT
             /\ UNCHANGED <<memoryCache, lastSet>>
        ELSE /\ memoryCache' = MemorySet(o)
             /\ Return(p, o, Ok(o.fb))
             /\ lastSet' = LastSetAfter(o, o.fb)
             /\ rt' = IF OthersIdle(p) /\ o.fb
                      THEN [tracked EXCEPT !.st = "set"] ELSE NoRT
     /\ UNCHANGED <<now, isRedisAvailable, redisStore, redisUp, ctorProbe,
                    nextCleanup, everUp>>
     /\ CacheFrame

(* Lines 112-124 of set: redis.set succeeded (return true) or threw *)
SetRemote(p) ==
  LET o == op[p]
  IN /\ cpc[p] = "remote" /\ o.kind = "set"
     /\ IF redisUp
        THEN /\ redisStore' = RedisSet(redisStore, o.fk, Stringify(o.item), o.ttl, now)
             /\ Return(p, o, Answers(Ok(TRUE)))
             /\ lastSet' = LastSetAfter(o, TRUE)
             /\ rt' = RtAfterSet(p, TRUE)
        ELSE /\ Suspend(p, o, "probe")
             /\ UNCHANGED <<redisStore, lastSet, rt>>
     /\ Answered
     /\ UNCHANGED <<now, isRedisAvailable, memoryCache, redisUp, ctorProbe,
                    nextCleanup>>
     /\ ResumeFrame

SetProbe(p) ==
  LET o == op[p]
  IN /\ cpc[p] = "probe" /\ o.kind = "set"
     /\ isRedisAvailable' = updateRedisAvailability
     /\ Answered
     /\ memoryCache' = MemorySet(o)
     /\ Return(p, o, Threw(Ok(o.fb)))
     /\ lastSet' = LastSetAfter(o, o.fb)
     /\ rt' = RtAfterSet(p, o.fb)
     /\ UNCHANGED <<now, redisStore, redisUp, ctorProbe, nextCleanup>>
     /\ ResumeFrame

(* this.memoryCache.delete(formattedKey) *)
MemoryDelete(fk) == [memoryCache EXCEPT ![fk] = NoItem]

LastSetDeleted(o, ok) ==
  [lastSet EXCEPT ![o.fk] = IF ok /\ calling.left >= 0
                           THEN Deleted(calling.left) ELSE NoItem]

DeleteStart(p, key, ns) ==
  LET o == [NoOp EXCEPT !.kind = "delete", !.fk = formatKey(key, ns), !.ns = ns]
  IN /\ Begin(p)
     /\ IF isRedisAvailable
        THEN /\ Suspend(p, o, "remote")
             /\ UNCHANGED <<memoryCache, lastSet>>
        ELSE /\ memoryCache' = MemoryDelete(o.fk)
             /\ Return(p, o, Ok(TRUE))
             /\ lastSet' = LastSetDeleted(o, TRUE)
     /\ rt' = NoRT
     /\ UNCHANGED <<now, isRedisAvailable, redisStore, redisUp, ctorProbe,
                    nextCleanup, everUp>>
     /\ CacheFrame

(* Lines 143-150 of delete: redis.del succeeded or threw *)
DeleteRemote(p) ==
  LET o == op[p]
  IN /\ cpc[p] = "remote" /\ o.kind = "delete"
     /\ IF redisUp
        THEN /\ redisStore' = RedisDel(redisStore, {o.fk})
             /\ memoryCache' = MemoryDelete(o.fk)
             /\ Return(p, o, Answers(Ok(TRUE)))
             /\ lastSet' = LastSetDeleted(o, TRUE)
        ELSE /\ Suspend(p, [o EXCEPT !.redisSuccess = FALSE], "probe")
             /\ UNCHANGED <<redisStore, memoryCache, lastSet>>
     /\ Answered
     /\ UNCHANGED <<now, isRedisAvailable, redisUp, ctorProbe, nextCleanup,
                    rt>>
     /\ ResumeFrame

DeleteProbe(p) ==
  LET o == op[p]
  IN /\ cpc[p] = "probe" /\ o.kind = "delete"
     /\ isRedisAvailable' = updateRedisAvailability
     /\ Answered
     /\ memoryCache' = MemoryDelete(o.fk)
     /\ Return(p, o, Threw(Ok(o.redisSuccess \/ isRedisAvailable' = FALSE)))
     /\ lastSet' = LastSetDeleted(o, o.redisSuccess \/ isRedisAvailable' = FALSE)
     /\ UNCHANGED <<now, redisStore, redisUp, ctorProbe, nextCleanup, rt>>
     /\ ResumeFrame

(* Lines 180-185 of clear: drop the memory-cache keys of the namespace *)
MemoryClear(ns) ==
  [k \in FKeys |-> IF StartsWith(k, ns) THEN NoItem ELSE memoryCache[k]]

LastSetCleared(ns) ==
  [k \in FKeys |-> IF StartsWith(k, ns) THEN NoItem ELSE lastSet[k]]

ClearStart(p, namespace) ==
  LET ns == IF namespace = <<>> THEN DefaultNamespace ELSE namespace
      o == [NoOp EXCEPT !.kind = "clear", !.ns = ns]
  IN /\ Begin(p)
     /\ IF isRedisAvailable
        THEN /\ Suspend(p, o, "remote")
             /\ UNCHANGED <<memoryCache, lastSet>>
        ELSE /\ memoryCache' = MemoryClear(ns)
             /\ Return(p, o, Ok(TRUE))
             /\ lastSet' = LastSetCleared(ns)
     /\ rt' = NoRT
     /\ UNCHANGED <<now, isRedisAvailable, redisStore, redisUp, ctorProbe,
                    nextCleanup, everUp>>
     /\ CacheFrame

(* Lines 166-167 of clear: the answer of redis.keys, or its exception *)
ClearKeys(p) ==
  LET o == op[p]
      keys == RedisKeys(redisStore, o.ns, now)
  IN /\ cpc[p] = "remote" /\ o.kind = "clear"
     /\ IF ~redisUp
        THEN /\ Suspend(p, [o EXCEPT !.redisSuccess = FALSE], "probe")
             /\ UNCHANGED <<memoryCache, lastSet>>
        ELSE IF keys # {}
        THEN /\ Suspend(p, [o EXCEPT !.keys = keys], "remoteDel")
             /\ UNCHANGED <<memoryCache, lastSet>>
        ELSE /\ memoryCache' = MemoryClear(o.ns)
             /\ Return(p, o, Answers(Ok(TRUE)))
             /\ lastSet' = LastSetCleared(o.ns)
     /\ Answered
     /\ UNCHANGED <<now, isRedisAvailable, redisStore, redisUp, ctorProbe,
                    nextCleanup, rt>>
     /\ ResumeFrame

(* Lines 169-171 of clear: redis.del(...keys) succeeded or threw *)
ClearDel(p) ==
  LET o == op[p]
  IN /\ cpc[p] = "remoteDel" /\ o.kind = "clear"
     /\ IF redisUp
        THEN /\ redisStore' = RedisDel(redisStore, o.keys)
             /\ memoryCache' = MemoryClear(o.ns)
             /\ Return(p, o, Answers(Ok(TRUE)))
             /\ lastSet' = LastSetCleared(o.ns)
        ELSE /\ Suspend(p, [o EXCEPT !.redisSuccess = FALSE], "probe")
             /\ UNCHANGED <<redisStore, memoryCache, lastSet>>
     /\ Answered
     /\ UNCHANGED <<now, isRedisAvailable, redisUp, ctorProbe, nextCleanup,
                    rt>>
     /\ ResumeFrame

ClearProbe(p) ==
  LET o == op[p]
  IN /\ cpc[p] = "probe" /\ o.kind = "clear"
     /\ isRedisAvailable' = updateRedisAvailability
     /\ Answered
     /\ memoryCache' = MemoryClear(o.ns)
     /\ Return(p, o, Threw(Ok(o.redisSuccess \/ isRedisAvailable' = FALSE)))
     /\ lastSet' = LastSetCleared(o.ns)
     /\ UNCHANGED <<now, redisStore, redisUp, ctorProbe, nextCleanup, rt>>
     /\ ResumeFrame

(* this.memoryCache.size *)
MemorySize == Cardinality({k \in FKeys : memoryCache[k] # NoItem})

(* redis.info('keyspace') and the keys=(\d+) of its answer: the number of  *)
(* keys of the database, undefined (-1) when the answer has no such line   *)
RedisSize ==
  LET n == Cardinality({k \in FKeys : RedisGet(redisStore, k, now) # <<>>})
  IN IF n > 0 THEN n ELSE -1

(* The object getStats returns; ok is its redisAvailable *)
Stats(available, size) ==
  [NoResult EXCEPT !.ok = available, !.memorySize = MemorySize,
                   !.redisSize = size]

StatsOp == [NoOp EXCEPT !.kind = "getStats"]

StatsStart(p) ==
  /\ Begin(p)
  /\ IF isRedisAvailable
     THEN Suspend(p, StatsOp, "remote")
     ELSE Return(p, StatsOp, Stats(isRedisAvailable, -1))
  /\ rt' = NoRT
  /\ UNCHANGED <<now, isRedisAvailable, memoryCache, redisStore, redisUp,
                 ctorProbe, nextCleanup, everUp, lastSet>>
  /\ CacheFrame

StatsRemote(p) ==
  /\ cpc[p] = "remote" /\ op[p].kind = "getStats"
  /\ IF redisUp
     THEN Return(p, StatsOp, Answers(Stats(isRedisAvailable, RedisSize)))
     ELSE Suspend(p, StatsOp, "probe")
  /\ Answered
  /\ UNCHANGED <<now, isRedisAvailable, memoryCache, redisStore, redisUp,
                 ctorProbe, nextCleanup, lastSet, rt>>
  /\ ResumeFrame

StatsProbe(p) ==
  /\ cpc[p] = "probe" /\ op[p].kind = "getStats"
  /\ isRedisAvailable' = updateRedisAvailability
  /\ Answered
  /\ Return(p, StatsOp, Threw(Stats(isRedisAvailable', -1)))
  /\ UNCHANGED <<now, memoryCache, redisStore, redisUp, ctorProbe, nextCleanup,
                 lastSet, rt>>
  /\ ResumeFrame

(* Lines 190-199: cleanupMemoryCache, run by the constructor's timer *)
(* this.memoryCache.clear() in place of the loop *)
CleanupMemoryCacheAll ==
  /\ now >= nextCleanup
  /\ last' = NoResult
  /\ nextCleanup' = nextCleanup + CleanupPeriod
  /\ memoryCache' = [k \in FKeys |-> NoItem]
  /\ UNCHANGED <<now, isRedisAvailable, redisStore, redisUp, ctorProbe, cpc, op, everUp, lastSet, rt>>
  /\ ResumeFrame

CleanupMemoryCache ==
  /\ now >= nextCleanup
  /\ last' = NoResult
  /\ nextCleanup' = nextCleanup + CleanupPeriod
  /\ memoryCache' = [k \in FKeys |->
                       IF memoryCache[k] # NoItem /\ now > memoryCache[k].expiry
                       THEN NoItem ELSE memoryCache[k]]
  /\ UNCHANGED <<now, isRedisAvailable, redisStore, redisUp, ctorProbe, cpc, op, everUp, lastSet, rt>>
  /\ ResumeFrame

(* The environment: the remote store fails and recovers, time passes *)
RedisDown ==
  /\ redisUp
  /\ last' = NoResult
  /\ redisUp' = FALSE
  /\ UNCHANGED <<now, isRedisAvailable, memoryCache, redisStore, ctorProbe,
                 nextCleanup, cpc, op, everUp, lastSet, rt>>
  /\ ResumeFrame

RedisUp ==
  /\ ~redisUp
  /\ last' = NoResult
  /\ redisUp' = TRUE
  /\ UNCHANGED <<now, isRedisAvailable, memoryCache, redisStore, ctorProbe,
                 nextCleanup, cpc, op, everUp, lastSet, rt>>
  /\ ResumeFrame

Elapse(t) ==
  /\ now' = t
  /\ last' = NoResult
  /\ redisStore' = RedisExpire(redisStore, t)
  /\ lastSet' = [k \in FKeys |->
                   IF lastSet[k].data \notin {"null", "deleted"} /\ t >= lastSet[k].expiry
                   THEN NoItem ELSE lastSet[k]]
  /\ rt' = NoRT
  /\ UNCHANGED <<isRedisAvailable, memoryCache, redisUp, ctorProbe, nextCleanup,
                 cpc, op, everUp>>
  /\ ResumeFrame

CacheTick ==
  /\ now < MaxCacheTicks * MsPerSecond
  /\ Elapse(now + MsPerSecond)

(* Nothing is called until the cleanup timer is due *)
CacheSleep ==
  /\ now < nextCleanup
  /\ nextCleanup <= MaxCleanups * CleanupPeriod
  /\ \A p \in Procs : cpc[p] = "idle"
  /\ Elapse(nextCleanup)

NextCache ==
  \/ CtorProbe
  \/ \E p \in Procs, key \in RawKeys, ns \in Namespaces, fb \in BOOLEAN :
       GetStart(p, key, ns, fb)
  \/ \E p \in Procs : GetRemote(p)
  \/ \E p \in Procs : GetProbe(p)
  \/ \E p \in Procs, key \in RawKeys, data \in Values, ttl \in Ttls,
        ns \in Namespaces, fb \in BOOLEAN :
       SetStart(p, key, data, ttl, ns, fb)
  \/ \E p \in Procs : SetRemote(p)
  \/ \E p \in Procs : SetProbe(p)
  \/ \E p \in Procs, key \in RawKeys, ns \in Namespaces : DeleteStart(p, key, ns)
  \/ \E p \in Procs : DeleteRemote(p)
  \/ \E p \in Procs : DeleteProbe(p)
  \/ \E p \in Procs, ns \in Namespaces : ClearStart(p, ns)
  \/ \E p \in Procs : ClearKeys(p)
  \/ \E p \in Procs : ClearDel(p)
  \/ \E p \in Procs : ClearProbe(p)
  \/ \E p \in Procs : StatsStart(p)
  \/ \E p \in Procs : StatsRemote(p)
  \/ \E p \in Procs : StatsProbe(p)
  \/ CleanupMemoryCache
  \/ RedisDown
  \/ RedisUp
  \/ CacheTick
  \/ CacheSleep

SpecCache == InitCache /\ [][NextCache]_vars

SpecCache2 == InitCache2 /\ [][NextCache]_vars

(* C8 (as stated): a get that directly follows a set of the same key and   *)
(* namespace that returned true, both with the default local fallback,     *)
(* returns the value of that set, whatever the remote store does during    *)
(* the two calls.                                                          *)
C8_RoundTrip ==
  last.kind = "get" /\ last.fb /\ last.rt # "none" => last.value = last.rt

(* A get directly follows a set that went to the remote store *)
C8_Witness ==
  last.kind = "get" /\ last.fb /\ last.rt # "none" /\ last.from = "remote"

(* C9 (as stated): get never returns as a hit an entry whose own expiry    *)
(* (the time of its set plus ttl * 1000) has been reached, on the remote   *)
(* path as on the local path.                                              *)
C9_NoHitAfterExpiry ==
  last.kind = "get" => ~last.late

(* A get returns a hit that the remote store answered *)
C9_Witness ==
  last.kind = "get" /\ last.from = "remote"

(* C10: while no remote command and no ping has succeeded, the flag stays  *)
(* false, a set with local fallback returns true, a get with local         *)
(* fallback returns the value of the last set of the key that has not      *)
(* expired and was not deleted or cleared, taken from the memory cache,    *)
(* and getStats reports redisAvailable false.                              *)
C10_DegradedMode ==
  ~everUp =>
    /\ ~isRedisAvailable
    /\ last.kind = "set" /\ last.fb => last.ok
    /\ last.kind = "get" /\ last.fb /\ last.expect # "none" =>
         last.value = last.expect /\ last.from = "memory"
    /\ last.kind = "getStats" => ~last.ok

(* The ping has failed and a get directly follows a set *)
C10_Witness ==
  /\ ~everUp /\ ctorProbe = "done"
  /\ last.kind = "get" /\ last.fb /\ last.rt \in Values

(* C11 (as stated): when a remote command throws inside get, set, delete,  *)
(* clear or getStats, the availability flag is false when that call        *)
(* returns.                                                                *)
C11_FlagFalseAfterThrow ==
  last.threw => ~isRedisAvailable

(* A set whose remote command threw returns true from the memory cache *)
C11_Witness ==
  last.threw /\ last.kind = "set" /\ last.fb /\ last.ok /\ ~isRedisAvailable

---------------------------------------------------------------------------
(* The cache service under fair scheduling: a pending remote command or    *)
(* ping is answered, and callers keep calling every method.                *)

CacheResumes ==
  \/ CtorProbe
  \/ \E p \in Procs :
       \/ GetRemote(p) \/ GetProbe(p)
       \/ SetRemote(p) \/ SetProbe(p)
       \/ DeleteRemote(p) \/ DeleteProbe(p)
       \/ ClearKeys(p) \/ ClearDel(p) \/ ClearProbe(p)
       \/ StatsRemote(p) \/ StatsProbe(p)

GetCalls ==
  \E p \in Procs, key \in RawKeys, ns \in Namespaces, fb \in BOOLEAN :
    GetStart(p, key, ns, fb)

SetCalls ==
  \E p \in Procs, key \in RawKeys, data \in Values, ttl \in Ttls,
     ns \in Namespaces, fb \in BOOLEAN :
    SetStart(p, key, data, ttl, ns, fb)

DeleteCalls ==
  \E p \in Procs, key \in RawKeys, ns \in Namespaces : DeleteStart(p, key, ns)

ClearCalls == \E p \in Procs, ns \in Namespaces : ClearStart(p, ns)

StatsCalls == \E p \in Procs : StatsStart(p)

SpecCacheFair ==
  /\ SpecCache
  /\ WF_vars(CacheResumes)
  /\ SF_vars(GetCalls) /\ SF_vars(SetCalls) /\ SF_vars(DeleteCalls)
  /\ SF_vars(ClearCalls) /\ SF_vars(StatsCalls)

(* C12 (as stated): if the remote store becomes healthy and stays healthy  *)
(* while the methods keep being called, the availability flag becomes true *)
(* again and stays true.                                                   *)
C12_Recovery ==
  <>[]redisUp => <>[]isRedisAvailable

(* The remote store is healthy, the flag is false and no ping is pending *)
C12_Witness ==
  /\ redisUp /\ ~isRedisAvailable /\ ctorProbe = "done"
  /\ last.kind = "set" /\ \A p \in Procs : cpc[p] = "idle"

(* A method hands a command to the remote store: it suspends at the await  *)
(* of redis.get, set, del, keys or info                                    *)
IssuesCommand ==
  \E p \in Procs :
    cpc'[p] \in {"remote", "remoteDel"} /\ cpc'[p] # cpc[p]

(* The ping of an updateRedisAvailability call is answered with true *)
PingSucceeds ==
  /\ redisUp
  /\ \/ ctorProbe = "pending" /\ ctorProbe' = "done"
     \/ \E p \in Procs : cpc[p] = "probe" /\ cpc'[p] = "idle"

(* C13 (as stated), first half: while the availability flag is false no    *)
(* method issues a command to the remote store.                            *)
C13_NoCommandWhileFlagFalse ==
  [][IssuesCommand => isRedisAvailable]_vars

(* C13, second half: the flag changes from false to true only in a step    *)
(* in which a ping is answered.                                            *)
C13_OnlyPingRaisesFlag ==
  [][~isRedisAvailable /\ isRedisAvailable' => PingSucceeds]_vars

(* A clear waits for redis.del while a failed ping has set the flag false *)
C13_Witness ==
  \E p \in Procs : cpc[p] = "remoteDel" /\ ~isRedisAvailable

(* C14 (as stated): when a set with local fallback returns true, the       *)
(* memory cache holds the entry of that set under the formatted key, also  *)
(* when the remote write succeeded.                                        *)
C14_LocalHoldsAfterSet ==
  last.kind = "set" /\ last.fb /\ last.ok =>
    memoryCache[last.fk] = lastSet[last.fk]

(* A set with local fallback returns true after its remote write *)
C14_Witness ==
  /\ last.kind = "set" /\ last.fb /\ last.ok /\ ~last.threw
  /\ redisStore[last.fk].value = Stringify(lastSet[last.fk])

(* The formatted key fk is the key of an entry set under namespace ns *)
InNamespace(fk, ns) == \E key \in RawKeys : fk = formatKey(key, ns)

(* C15 (as stated): clear(N1) removes no entry of another namespace, in    *)
(* the memory cache and in the remote store.                               *)
C15_ClearLeavesOthers ==
  [][last'.kind = "clear" =>
       \A k \in FKeys :
         ~InNamespace(k, last'.ns) =>
           memoryCache'[k] = memoryCache[k] /\ redisStore'[k] = redisStore[k]]_vars

(* A clear has returned and an entry of another namespace is stored *)
C15_Witness ==
  /\ last.kind = "clear"
  /\ \E k \in FKeys : ~InNamespace(k, last.ns) /\ memoryCache[k] # NoItem

(* C16: no call passes an exception on to its caller; a call in which a    *)
(* remote command threw returns the memory-cache entry or null (get), true *)
(* exactly with local fallback (set), whether the ping failed (delete,     *)
(* clear), or the statistics without a remote size (getStats).             *)
C16_NeverThrows ==
  /\ ~last.thrown
  /\ last.threw =>
       /\ last.kind = "get" =>
            IF last.from = "memory" THEN last.fb ELSE last.value = "null"
       /\ last.kind = "set" => last.ok = last.fb
       /\ last.kind \in {"delete", "clear"} => last.ok = ~isRedisAvailable
       /\ last.kind = "getStats" =>
            last.ok = isRedisAvailable /\ last.redisSize = -1

(* A get returns null after redis.get threw and the ping failed *)
C16_Witness ==
  last.threw /\ ~isRedisAvailable /\ last.kind = "get" /\ last.value = "null"

(* C17 (as stated): delete returns true exactly when redis.del succeeded   *)
(* or the flag was false when delete was called, and false when the flag   *)
(* was true and redis.del threw.                                           *)
C17_DeleteResult ==
  last.kind = "delete" => (last.ok <=> ~last.threw)

(* A delete whose redis.del threw returns false *)
C17_Witness ==
  last.kind = "delete" /\ last.threw /\ ~last.ok

(* C18: a set or get without local fallback that got no answer from the    *)
(* remote store (the flag was false, or the remote command threw) passes   *)
(* no exception on; the set returns false and leaves the memory cache as   *)
(* it was, the get returns null.                                           *)
C18_NoFallback ==
  [][last'.kind # "none" /\ ~last'.fb /\ ~last'.answered =>
       /\ ~last'.thrown
       /\ last'.kind = "set" => ~last'.ok /\ memoryCache' = memoryCache
       /\ last'.kind = "get" => last'.value = "null"]_vars

(* A set without local fallback returns false after redis.set threw, while *)
(* the memory cache holds an older entry of the key                        *)
C18_Witness ==
  /\ last.kind = "set" /\ ~last.fb /\ last.threw /\ ~last.ok
  /\ memoryCache[last.fk] # NoItem

---------------------------------------------------------------------------
(* The queries of the rate limiter: the same operations, with the answer   *)
(* of the most recent getRemainingRequests or getResetTime kept and the    *)
(* history of the check calls left out.                                    *)

QueryFrame ==
  UNCHANGED <<interval, limit, uniqueTokenPerInterval, lastCheck, win,
              allowedCnt, ecalls, notRL>>

QueryTick ==
  /\ now < MaxTime
  /\ now' = now + 1
  /\ lastQuery' = NoQuery
  /\ UNCHANGED <<cache, destroyed>>
  /\ QueryFrame

QueryCheck(token) ==
  /\ ~destroyed
  /\ cache' = check(cache, token, now, interval, limit,
                    uniqueTokenPerInterval).cache
  /\ lastQuery' = NoQuery
  /\ UNCHANGED <<now, destroyed>>
  /\ QueryFrame

QueryRemainingRequests(token) ==
  LET r == getRemainingRequests(cache, token, now, interval, limit)
  IN /\ ~destroyed
     /\ cache' = r.cache
     /\ lastQuery' = [op |-> "getRemainingRequests", token |-> token,
                      value |-> r.value]
     /\ UNCHANGED <<now, destroyed>>
     /\ QueryFrame

QueryResetTime(token) ==
  /\ ~destroyed
  /\ lastQuery' = [op |-> "getResetTime", token |-> token,
                   value |-> getResetTime(cache, token, now, interval)]
  /\ UNCHANGED <<now, cache, destroyed>>
  /\ QueryFrame

QueryCleanup ==
  /\ ~destroyed
  /\ cache' = cleanup(cache, now, interval)
  /\ lastQuery' = NoQuery
  /\ UNCHANGED <<now, destroyed>>
  /\ QueryFrame

QueryDestroy ==
  /\ ~destroyed
  /\ destroyed' = TRUE
  /\ cache' = <<>>
  /\ lastQuery' = NoQuery
  /\ UNCHANGED now
  /\ QueryFrame

NextQuery ==
  \/ QueryTick
  \/ \E token \in Tokens : QueryCheck(token)
  \/ \E token \in Tokens : QueryRemainingRequests(token)
  \/ \E token \in Tokens : QueryResetTime(token)
  \/ QueryCleanup
  \/ QueryDestroy

SpecQuery == InitRL /\ [][NextQuery]_vars


(* C19: getRemainingRequests(T) returns max(0, limit - count) of T's       *)
(* current window, limit when T has no entry or its entry has expired; it  *)
(* resets T's expired entry to count 0 with timestamp now and changes      *)
(* nothing else: the tokens of the map and their order stay, and so does   *)
(* the entry of every other token.                                         *)
C19_RemainingRequests ==
  [][lastQuery'.op = "getRemainingRequests" =>
       LET T == lastQuery'.token
           has == MapHas(cache, T)
           stale == has /\ Expired(MapGet(cache, T), now, interval)
           left == IF has THEN limit - MapGet(cache, T).count ELSE limit
       IN /\ lastQuery'.value =
               IF ~has \/ stale THEN limit
               ELSE IF left > 0 THEN left ELSE 0
          /\ Len(cache') = Len(cache)
          /\ \A i \in 1..Len(cache) :
               /\ cache'[i].token = cache[i].token
               /\ cache[i].token # T => cache'[i] = cache[i]
               /\ cache[i].token = T =>
                    cache'[i] = IF stale
                                THEN [token |-> T, count |-> 0, timestamp |-> now]
                                ELSE cache[i]
          /\ UNCHANGED <<now, interval, limit, uniqueTokenPerInterval,
                         destroyed>>]_vars

(* getRemainingRequests has reset an expired entry and returned limit,     *)
(* while the map holds another token                                       *)
C19_Witness ==
  /\ lastQuery.op = "getRemainingRequests"
  /\ lastQuery.value = limit
  /\ MapHas(cache, lastQuery.token)
  /\ MapGet(cache, lastQuery.token).count = 0
  /\ MapGet(cache, lastQuery.token).timestamp = now
  /\ Len(cache) = 2

(* An entry whose window is active at t *)
Active(entry, t, iv) == entry.timestamp <= t /\ ~Expired(entry, t, iv)

(* C20: getResetTime(T) returns 0 when T has no entry, is never negative,  *)
(* and returns timestamp + interval - now while T's window is active; it   *)
(* changes no state; and for an entry as it stands, a later instant of its *)
(* active window gives a strictly smaller value than an earlier one.       *)
C20_ResetTime ==
  /\ [][lastQuery'.op = "getResetTime" =>
          LET T == lastQuery'.token
          IN /\ ~MapHas(cache, T) => lastQuery'.value = 0
             /\ lastQuery'.value >= 0
             /\ MapHas(cache, T) /\ Active(MapGet(cache, T), now, interval) =>
                  lastQuery'.value = MapGet(cache, T).timestamp + interval - now
             /\ UNCHANGED <<now, interval, limit, uniqueTokenPerInterval,
                            cache, destroyed>>]_vars
  /\ [](\A T \in TokensOf(cache) : \A t1, t2 \in 0..(MaxTime + MaxInterval) :
          /\ t1 < t2
          /\ Active(MapGet(cache, T), t1, interval)
          /\ Active(MapGet(cache, T), t2, interval)
          => getResetTime(cache, T, t2, interval)
               < getResetTime(cache, T, t1, interval))

(* getResetTime has returned a value strictly between 0 and interval: the  *)
(* clock has advanced within the token's active window                     *)
C20_Witness ==
  /\ lastQuery.op = "getResetTime"
  /\ MapHas(cache, lastQuery.token)
  /\ Active(MapGet(cache, lastQuery.token), now, interval)
  /\ MapGet(cache, lastQuery.token).timestamp < now
  /\ 0 < lastQuery.value /\ lastQuery.value < interval

---------------------------------------------------------------------------
(* The cleanup pass of the rate limiter: two limiters with the same        *)
(* options receive the same calls at the same instants; the timer of the   *)
(* first one fires (cache), the timer of the second one never does         *)
(* (cacheB).                                                               *)

SweepFrame ==
  UNCHANGED <<interval, limit, uniqueTokenPerInterval, destroyed, lastCheck,
              lastQuery, win, allowedCnt, ecalls, indep, payVars, csVars,
              wlVars>>

SweepTick ==
  /\ now < MaxTime
  /\ now' = now + 1
  /\ UNCHANGED <<cache, cacheB>>
  /\ SweepFrame

SweepCheck(token) ==
  /\ cache' = check(cache, token, now, interval, limit,
                    uniqueTokenPerInterval).cache
  /\ cacheB' = check(cacheB, token, now, interval, limit,
                     uniqueTokenPerInterval).cache
  /\ UNCHANGED now
  /\ SweepFrame

SweepRemaining(token) ==
  /\ cache' = getRemainingRequests(cache, token, now, interval, limit).cache
  /\ cacheB' = getRemainingRequests(cacheB, token, now, interval, limit).cache
  /\ UNCHANGED now
  /\ SweepFrame

SweepPass ==
  /\ cache' = cleanup(cache, now, interval)
  /\ UNCHANGED <<now, cacheB>>
  /\ SweepFrame

NextSweep ==
  \/ SweepTick
  \/ \E token \in Tokens : SweepCheck(token)
  \/ \E token \in Tokens : SweepRemaining(token)
  \/ SweepPass

SpecSweep == InitRL /\ [][NextSweep]_vars

(* The outcome of check(token) on the map c at the current instant *)
Outcome(c, token) ==
  LET r == check(c, token, now, interval, limit, uniqueTokenPerInterval)
  IN <<r.allowed, r.resetTime>>

(* C21 (as stated): after the same calls, a check of any token has the     *)
(* same outcome in the limiter whose cleanup passes ran as in the one      *)
(* without passes.                                                         *)
C21_AsStated ==
  \A token \in Tokens : Outcome(cache, token)[1] = Outcome(cacheB, token)[1]

(* C21 amended: a cleanup pass removes every entry with                    *)
(* now - timestamp > interval, leaves every other entry and the order of   *)
(* the entries unchanged, and a check of any token made directly after the *)
(* pass has the outcome (decision and resetTime) it would have had         *)
(* directly before it.                                                     *)
C21_SweepRemovesExpiredOnly ==
  [][SweepPass =>
       LET kept == {i \in 1..Len(cache) : now - cache[i].timestamp <= interval}
       IN /\ TokensOf(cache') = {cache[i].token : i \in kept}
          /\ Len(cache') = Cardinality(kept)
          /\ \A i \in kept : MapGet(cache', cache[i].token) = cache[i]
          /\ \A i, j \in 1..Len(cache') :
               i < j =>
                 \E k, l \in kept : k < l /\ cache[k] = cache'[i]
                                         /\ cache[l] = cache'[j]
          /\ \A token \in Tokens : Outcome(cache', token) = Outcome(cache, token)]_vars

(* A pass has removed an expired entry and kept an entry that is not       *)
(* expired: the limiter without passes still holds both                    *)
C21_Witness ==
  /\ Len(cache) = 1
  /\ Len(cacheB) = 2
  /\ \E i \in 1..2 : now - cacheB[i].timestamp > interval
  /\ \E i \in 1..2 : cacheB[i] = cache[1]
                       /\ now - cacheB[i].timestamp <= interval

---------------------------------------------------------------------------
(* The cleanup pass of the memory cache *)

(* get's local branch would return the entry of key k at instant t *)
LocalHit(m, k, t) == m[k] # NoItem /\ t < m[k].expiry

(* C22: a pass of cleanupMemoryCache removes every entry of the memory     *)
(* cache whose expiry has passed (now > expiry) and changes no other       *)
(* entry, so every entry that get would return as a hit before the pass is *)
(* returned as a hit after it.                                             *)
C22_SweepKeepsHits ==
  [][nextCleanup' # nextCleanup =>
       \A k \in FKeys :
         /\ memoryCache[k] # NoItem /\ now > memoryCache[k].expiry =>
              memoryCache'[k] = NoItem
         /\ ~(memoryCache[k] # NoItem /\ now > memoryCache[k].expiry) =>
              memoryCache'[k] = memoryCache[k]
         /\ LocalHit(memoryCache, k, now) =>
              LocalHit(memoryCache', k, now') /\ now' = now]_vars

(* A pass has run: one key's entry, stored at the instant of the pass, is  *)
(* still a hit; the other key has no entry                                 *)
C22_Witness ==
  /\ nextCleanup > CleanupPeriod
  /\ now = CleanupPeriod
  /\ \E k \in FKeys : LocalHit(memoryCache, k, now)
  /\ \E k \in FKeys : memoryCache[k] = NoItem

---------------------------------------------------------------------------
(* The order of the steps of a payment request *)

(* C23: a request is checked against the rate limit, then validated, then  *)
(* sent to the gateway: the gateway is called at most once per request,    *)
(* only from the end of the validation of a request that the limiter       *)
(* allowed, and a request that ends at the rate limit, at the content type *)
(* test or in the validation has made no gateway call.                     *)
C23_CheckValidateGateway ==
  /\ [](\A r \in Reqs :
          /\ gatewayCalls[r] <= 1
          /\ pc[r] \in {"parsing", "fetching", "reading"} => req[r].allowed
          /\ gatewayCalls[r] = 1 =>
               req[r].allowed /\ pc[r] \in {"fetching", "reading", "done"}
          /\ pc[r] = "done" /\ ~req[r].allowed => gatewayCalls[r] = 0)
  /\ [][\A r \in Reqs :
          /\ gatewayCalls'[r] > gatewayCalls[r] =>
               pc[r] = "parsing" /\ pc'[r] = "fetching" /\ req[r].allowed
          /\ pc[r] = "idle" /\ pc'[r] # "idle" => pc'[r] = "checking"
          /\ pc[r] = "checking" /\ pc'[r] # "checking" =>
               pc'[r] \in {"parsing", "done"}
          /\ pc[r] \in {"checking", "parsing"} /\ pc'[r] = "done" =>
               gatewayCalls'[r] = 0]_vars

(* A request has been answered with 200 after one gateway call *)
C23_Witness ==
  \E r \in Reqs :
    pc[r] = "done" /\ gatewayCalls[r] = 1 /\ resp[r].status = 200

(* C24 (as stated): a request whose fetch was rejected (gateway             *)
(* unreachable) or answered with a status other than 200 gets a 502        *)
(* response; a request whose gateway answer has a response field other     *)
(* than 1 gets a 400 response with the gateway's responsetext; and the     *)
(* response in these cases is none of the validation responses.            *)
C24_GatewayErrorIs502 ==
  \A r \in Reqs :
    pc[r] = "done" =>
      /\ req[r].gateway \in {"unreachable", "httpError"} =>
           /\ resp[r].status = 502
           /\ resp[r] \notin {ValidationResponse(k) : k \in BodyKinds \ {"ok"}}
      /\ req[r].gateway = "http200" /\ req[r].response \notin {"1", "throws"} =>
           /\ resp[r].status = 400
           /\ req[r].responsetext # "" => resp[r].error = req[r].responsetext
           /\ resp[r] \notin {ValidationResponse(k) : k \in BodyKinds \ {"ok"}}

(* The fetch of a request was rejected and the request is answered with    *)
(* the 500 response of the outer catch block                               *)
C24_Witness ==
  \E r \in Reqs :
    pc[r] = "done" /\ req[r].gateway = "unreachable" /\ resp[r] = Unexpected

---------------------------------------------------------------------------
(* useAddToWishlist of use-product-hook.ts: each mutation runs onMutate    *)
(* (suspended at the await of cancelQueries), then mutationFn (suspended   *)
(* at the await of fetch), then onError if mutationFn threw, then          *)
(* onSettled.  An item of the wishlist is its productId.                   *)

Wishlist(items) == [defined |-> TRUE, items |-> items]

WishlistFrame ==
  UNCHANGED <<rlVars, indepVars, payVars, csVars>>

(* mutate(variables): onMutate starts and awaits cancelQueries *)
Mutate(m, productId) ==
  /\ mpc[m] = "idle"
  /\ mpc' = [mpc EXCEPT ![m] = "onMutate"]
  /\ context' = [context EXCEPT ![m].productId = productId]
  /\ UNCHANGED <<wishlist, invalidated, serverWishlist>>
  /\ WishlistFrame

(* setQueryData(['wishlist'], old => ...): items: [...(old?.items || []), newItem] *)
OptimisticAdd(old, productId) == Wishlist(Append(old.items, productId))

(* onMutate after the await: the snapshot, the optimistic update, the      *)
(* context; mutationFn starts and awaits fetch                             *)
OnMutate(m) ==
  /\ mpc[m] = "onMutate"
  /\ mpc' = [mpc EXCEPT ![m] = "mutationFn"]
  /\ context' = [context EXCEPT ![m].previousWishlist = wishlist]
  /\ wishlist' = OptimisticAdd(wishlist, context[m].productId)
  /\ UNCHANGED <<invalidated, serverWishlist>>
  /\ WishlistFrame

(* response.ok: the server has stored the item; onSettled *)
OnSuccess(m) ==
  /\ mpc[m] = "mutationFn"
  /\ mpc' = [mpc EXCEPT ![m] = "success"]
  /\ serverWishlist' = Append(serverWishlist, context[m].productId)
  /\ invalidated' = TRUE
  /\ UNCHANGED <<wishlist, context>>
  /\ WishlistFrame

(* onError: if (context?.previousWishlist) setQueryData(...) *)
Restored(ctx, current) ==
  IF ctx.previousWishlist.defined THEN ctx.previousWishlist ELSE current

(* fetch rejected or !response.ok: onError, then onSettled *)
OnError(m) ==
  /\ mpc[m] = "mutationFn"
  /\ mpc' = [mpc EXCEPT ![m] = "error"]
  /\ wishlist' = Restored(context[m], wishlist)
  /\ invalidated' = TRUE
  /\ UNCHANGED <<serverWishlist, context>>
  /\ WishlistFrame

(* The query of ['wishlist'] (first load, or refetch of the invalidated    *)
(* query) stores what the server holds                                     *)
Refetch ==
  /\ wishlist # Wishlist(serverWishlist) \/ invalidated
  /\ wishlist' = Wishlist(serverWishlist)
  /\ invalidated' = FALSE
  /\ UNCHANGED <<serverWishlist, mpc, context>>
  /\ WishlistFrame

NextWishlist ==
  \/ \E m \in Mutations, productId \in Products : Mutate(m, productId)
  \/ \E m \in Mutations : OnMutate(m)
  \/ \E m \in Mutations : OnSuccess(m)
  \/ \E m \in Mutations : OnError(m)
  \/ Refetch

InitWishlist == InitPay

SpecWishlist == InitWishlist /\ [][NextWishlist]_vars

(* C25 (as stated): when an add-to-wishlist mutation fails, the cached     *)
(* wishlist is afterwards the value it had before that mutation's          *)
(* optimistic add, also when there was no cached wishlist.                 *)
C25_RestoredOnError ==
  [][\A m \in Mutations :
       mpc[m] = "mutationFn" /\ mpc'[m] = "error" =>
         wishlist' = context[m].previousWishlist]_vars

(* A mutation made with no cached wishlist has failed and the cache holds  *)
(* its optimistic item                                                     *)
C25_Witness ==
  \E m \in Mutations :
    /\ mpc[m] = "error"
    /\ ~context[m].previousWishlist.defined
    /\ wishlist = Wishlist(<<context[m].productId>>)

---------------------------------------------------------------------------
(* Reads after writes and deletes *)

(* C26 (as stated): a get of a key whose most recent set that returned     *)
(* true has not expired and was not deleted or cleared returns null or the *)
(* value of that set, never a value that the set has overwritten.          *)
C26_NoStaleRead ==
  last.kind = "get" /\ last.expect # "none" =>
    last.value \in {"null", last.expect}

(* A get returns from the memory cache a value other than the one of the   *)
(* most recent set that returned true                                      *)
C26_Witness ==
  /\ last.kind = "get" /\ last.from = "memory"
  /\ last.expect \in Values
  /\ last.value \in Values \ {last.expect}

---------------------------------------------------------------------------
(* Two callers that use get, set and delete under the default namespace    *)

(* Number of calls the two callers make *)
MaxDeleteCalls == 4

DeleteCallers == [who |-> Procs, left |-> MaxDeleteCalls]

InitDelete == InitCacheOf(DeleteCallers)

NextDelete ==
  \/ CtorProbe
  \/ \E p \in Procs, key \in RawKeys, fb \in BOOLEAN :
       GetStart(p, key, <<>>, fb)
  \/ \E p \in Procs : GetRemote(p)
  \/ \E p \in Procs : GetProbe(p)
  \/ \E p \in Procs, key \in RawKeys, data \in Values, ttl \in Ttls,
        fb \in BOOLEAN :
       SetStart(p, key, data, ttl, <<>>, fb)
  \/ \E p \in Procs : SetRemote(p)
  \/ \E p \in Procs : SetProbe(p)
  \/ \E p \in Procs, key \in RawKeys : DeleteStart(p, key, <<>>)
  \/ \E p \in Procs : DeleteRemote(p)
  \/ \E p \in Procs : DeleteProbe(p)
  \/ RedisDown
  \/ RedisUp
  \/ CacheTick

SpecDelete == InitDelete /\ [][NextDelete]_vars

(* C27 (as stated): a get of a key that starts after a delete of the key    *)
(* has returned true, with no set of the key written since, returns null.  *)
C27_DeletedStaysDeleted ==
  last.kind = "get" /\ last.afterDelete => last.value = "null"

(* A get that started after the delete of its key returned true returns a  *)
(* value from the remote store                                             *)
C27_Witness ==
  last.kind = "get" /\ last.afterDelete /\ last.value \in Values
    /\ last.from = "remote"

---------------------------------------------------------------------------
(* The table of the rate limiter *)

(* C28: a check(T) call that is rejected leaves the map as it was (the     *)
(* tokens, their order, every count and every timestamp) and the options   *)
(* and the clock too, so the outcome of every later check is the one it    *)
(* would have been without the rejected call.                              *)
C28_RejectedCheckFrame ==
  [][lastCheck'.token # NoToken /\ ~lastCheck'.allowed =>
       /\ cache' = cache
       /\ UNCHANGED <<now, interval, limit, uniqueTokenPerInterval,
                      destroyed>>]_vars

(* A check is rejected after the clock has advanced within the token's     *)
(* window, while the map holds another token                               *)
C28_Witness ==
  /\ Checked /\ ~lastCheck.allowed
  /\ MapGet(cache, lastCheck.token).timestamp < now
  /\ Len(cache) = 2

(* C29: every entry of the map has 0 <= count <= limit and                 *)
(* timestamp <= now, after any sequence of check, getRemainingRequests,    *)
(* getResetTime and cleanup calls (limit >= 1).                            *)
C29_EntryRange ==
  \A i \in 1..Len(cache) :
    /\ 0 <= cache[i].count
    /\ cache[i].count <= limit
    /\ cache[i].timestamp <= now

(* The map holds an entry at its limit and an entry that                   *)
(* getRemainingRequests has reset to count 0                               *)
C29_Witness ==
  /\ limit = 2
  /\ \E i \in 1..Len(cache) : cache[i].count = limit /\ cache[i].timestamp < now
  /\ \E i \in 1..Len(cache) : cache[i].count = 0

---------------------------------------------------------------------------
(* rateLimitRequest of redis-cache-client.ts next to RateLimiter.check:    *)
(* both receive the same calls at the same instants, with the same limit   *)
(* and window; cache is the limiter's map, cacheB is IP_REQUESTS.          *)

(* timestamp: now in place of current.timestamp *)
rateLimitRequestRenew(c, ip, t, lim, windowMs) ==
  LET c1 == SelectSeq(c, LAMBDA e : ~(t - e.timestamp > windowMs))
      current == IF MapHas(c1, ip) THEN MapGet(c1, ip)
                 ELSE [count |-> 0, timestamp |-> t]
  IN IF current.count >= lim
     THEN [cache |-> c1, allowed |-> FALSE]
     ELSE [cache |-> MapSet(c1, ip, [count |-> current.count + 1,
                                     timestamp |-> t]),
           allowed |-> TRUE]

(* rateLimitRequest(ip, limit, windowMs) as a function of IP_REQUESTS and  *)
(* the clock: the map afterwards and the value returned                    *)
rateLimitRequest(c, ip, t, lim, windowMs) ==
  LET c1 == SelectSeq(c, LAMBDA e : ~(t - e.timestamp > windowMs))
      current == IF MapHas(c1, ip) THEN MapGet(c1, ip)
                 ELSE [count |-> 0, timestamp |-> t]
  IN IF current.count >= lim
     THEN [cache |-> c1, allowed |-> FALSE]
     ELSE [cache |-> MapSet(c1, ip, [count |-> current.count + 1,
                                     timestamp |-> current.timestamp]),
           allowed |-> TRUE]

TokenOrder == <<"t1", "t2", "t3">>

(* The tokens of a run: no more than the limiter's capacity *)
TokensWithin(maxTok) ==
  {TokenOrder[i] : i \in 1..Min2(maxTok, Len(TokenOrder))}

EquivFrame ==
  UNCHANGED <<interval, limit, uniqueTokenPerInterval, destroyed, lastCheck,
              lastQuery, win, allowedCnt, ecalls, indep, payVars, csVars,
              wlVars>>

EquivTick ==
  /\ now < MaxTime
  /\ now' = now + 1
  /\ UNCHANGED <<cache, cacheB>>
  /\ EquivFrame

(* limiter.check(token) and rateLimitRequest(token, limit, interval) *)
EquivCall(token) ==
  /\ token \in TokensWithin(uniqueTokenPerInterval)
  /\ cache' = check(cache, token, now, interval, limit,
                    uniqueTokenPerInterval).cache
  /\ cacheB' = rateLimitRequest(cacheB, token, now, limit, interval).cache
  /\ UNCHANGED now
  /\ EquivFrame

(* the cleanup timer of the limiter *)
EquivCleanup ==
  /\ cache' = cleanup(cache, now, interval)
  /\ UNCHANGED <<now, cacheB>>
  /\ EquivFrame

NextEquiv ==
  \/ EquivTick
  \/ \E token \in Tokens : EquivCall(token)
  \/ EquivCleanup

SpecEquiv == InitRL /\ [][NextEquiv]_vars

(* C30: after the same calls at the same instants, with the same limit and *)
(* window and no more distinct tokens than uniqueTokenPerInterval,         *)
(* rateLimitRequest(T) returns true exactly when check(T) is allowed, for  *)
(* every token T of the run, and both maps hold the same count for every   *)
(* token whose window has not expired.                                     *)
C30_SameDecision ==
  \A token \in TokensWithin(uniqueTokenPerInterval) :
    /\ check(cache, token, now, interval, limit,
             uniqueTokenPerInterval).allowed
         = rateLimitRequest(cacheB, token, now, limit, interval).allowed
    /\ MapHas(cacheB, token)
         /\ ~Expired(MapGet(cacheB, token), now, interval) =>
           MapHas(cache, token) /\ MapGet(cache, token) = MapGet(cacheB, token)

(* Both reject a token at its limit, while the limiter's map holds an      *)
(* expired entry that rateLimitRequest has removed from IP_REQUESTS         *)
C30_Witness ==
  /\ Len(cache) = 2 /\ Len(cacheB) = 1
  /\ MapGet(cacheB, cacheB[1].token).count = limit
  /\ ~rateLimitRequest(cacheB, cacheB[1].token, now, limit, interval).allowed
  /\ \E i \in 1..2 : Expired(cache[i], now, interval)

=============================================================================
